---- MODULE Spec2Model ----
(***************************************************************************)
(* The tic-tac-toe Game component of the walkthrough (src/README.md): the  *)
(* hook state history / xIsNext / stepNumber, the click handler            *)
(* handleClick, the time-travel handler jumpTo and the pure helper         *)
(* calculateWinner.  A click is dispatched, its handler runs to completion *)
(* on the values of the last render, the setters are applied together and  *)
(* the component renders again: one handler call is one step.              *)
(*                                                                         *)
(* JavaScript arrays are 0-based: squares is a function on 0..8, history   *)
(* is a TLA+ sequence whose element k+1 is the JavaScript history[k].      *)
(***************************************************************************)
EXTENDS Integers, Sequences, FiniteSets, TLC

VARIABLES
    history,     \* useState([{squares: Array(9).fill(null)}])
    xIsNext,     \* useState(true)
    stepNumber,  \* useState(0)
    accepted,    \* observer: moves accepted so far while no jumpTo has run (0 afterwards)
    jumped,      \* observer: some jumpTo has run
    squares,     \* calculateWinner harness: the argument
    winner,      \* calculateWinner harness: the returned value, "pending" before the call
    clicks       \* observer of a scripted game: the squares clicked so far, in order

vars == <<history, xIsNext, stepNumber, accepted, jumped, squares, winner, clicks>>

\* Number of empty squares of the displayed board on which a move is explored:
\* the first MaxBranch empty squares in index order.
MaxBranch == 2

\* Scripted games: every sequence of at most ScriptLen clicks on the squares
\* 0 .. MaxScriptCell.
ScriptLen == 5
MaxScriptCell == 4

null == "null"
Marks == {"X", "O"}
Values == Marks \cup {null}
Cells == 0 .. 8
Boards == [Cells -> Values]

\* Array(9).fill(null)
EmptySquares == [c \in Cells |-> null]

\* JavaScript truthiness of a square value: null is falsy, 'X' and 'O' are truthy.
Truthy(v) == v # null

\* Variant of lines: the rows are listed bottom-to-top.
linesBottomUp ==
    << <<6, 7, 8>>,
       <<3, 4, 5>>,
       <<0, 1, 2>>,
       <<0, 3, 6>>,
       <<1, 4, 7>>,
       <<2, 5, 8>>,
       <<0, 4, 8>>,
       <<2, 4, 6>> >>

\* Variant of lines: the top row is mistyped as [0, 1, 3].
linesTypo ==
    << <<0, 1, 3>>,
       <<3, 4, 5>>,
       <<6, 7, 8>>,
       <<0, 3, 6>>,
       <<1, 4, 7>>,
       <<2, 5, 8>>,
       <<0, 4, 8>>,
       <<2, 4, 6>> >>

lines ==
    << <<0, 1, 2>>,
       <<3, 4, 5>>,
       <<6, 7, 8>>,
       <<0, 3, 6>>,
       <<1, 4, 7>>,
       <<2, 5, 8>>,
       <<0, 4, 8>>,
       <<2, 4, 6>> >>

\* Variant of LineWins: the truthiness test of squares[a] is left out.
LineWinsNoTruthy(sq, n) ==
    LET a == lines[n][1]
        b == lines[n][2]
        c == lines[n][3]
    IN  sq[a] = sq[b] /\ sq[a] = sq[c]

\* One iteration test of the for loop: the line at (1-based) position n is uniform and truthy.
LineWins(sq, n) ==
    LET a == lines[n][1]
        b == lines[n][2]
        c == lines[n][3]
    IN  Truthy(sq[a]) /\ sq[a] = sq[b] /\ sq[a] = sq[c]

RECURSIVE WinnerFrom(_, _)
\* The for loop from position n on: the first line that passes returns its mark.
WinnerFrom(sq, n) ==
    IF n > Len(lines) THEN null
    ELSE IF LineWins(sq, n) THEN sq[lines[n][1]]
    ELSE WinnerFrom(sq, n + 1)

calculateWinner(sq) == WinnerFrom(sq, 1)

RECURSIVE WinnerDownFrom(_, _)
\* calculateWinner with the for loop run backwards, from the last line to the first.
WinnerDownFrom(sq, n) ==
    IF n < 1 THEN null
    ELSE IF LineWins(sq, n) THEN sq[lines[n][1]]
    ELSE WinnerDownFrom(sq, n - 1)

\* history[k] of the source (0-based).
Entry(h, k) == h[k + 1]

\* Variant of Slice: the end index is taken as inclusive-minus-one (slice(0, end - 1)).
SliceShort(h, end) == SubSeq(h, 1, IF end - 1 < Len(h) THEN end - 1 ELSE Len(h))

\* history.slice(0, end)
Slice(h, end) == SubSeq(h, 1, IF end < Len(h) THEN end ELSE Len(h))

\* The three hook values one render of Game closes over.
state == [history |-> history, xIsNext |-> xIsNext, stepNumber |-> stepNumber]

\* Variant of Current: const current = history[history.length - 1], the
\* render of the walkthrough before stepNumber was introduced.
CurrentLast(st) == Entry(st.history, Len(st.history) - 1)

\* const current = history[stepNumber];  current.squares
Current(st) == Entry(st.history, st.stepNumber)
current == Current(state)

\* Variant of Rejects: only a decided board returns early.
RejectsOnlyDecided(st, i) ==
    Truthy(calculateWinner(Current(st)))

\* Variant of Rejects: only an occupied square returns early.
RejectsOnlyOccupied(st, i) ==
    Truthy(Current(st)[i])

\* Variant of Rejects: the early return is left out.
RejectsNothing(st, i) == FALSE

\* Variant of Rejects: the two tests are joined by && instead of ||.
RejectsBoth(st, i) ==
    LET sq == Current(st)
    IN  Truthy(calculateWinner(sq)) /\ Truthy(sq[i])

\* The early return of handleClick: if (calculateWinner(squares) || squares[i]) return;
Rejects(st, i) ==
    LET sq == Current(st)
    IN  Truthy(calculateWinner(sq)) \/ Truthy(sq[i])

\* Variant of handleClick: setXIsNext(!xIsNext) is left out.
handleClickNoFlip(st, i) ==
    LET history_copy == Slice(st.history, st.stepNumber + 1)
        sq == Current(st)
    IN  IF Rejects(st, i)
        THEN st
        ELSE [history    |-> Append(history_copy,
                                    [sq EXCEPT ![i] = IF st.xIsNext THEN "X" ELSE "O"]),
              xIsNext    |-> st.xIsNext,
              stepNumber |-> Len(history_copy)]

\* Variant of handleClick: setStepNumber(history.length) instead of history_copy.length.
handleClickFullLength(st, i) ==
    LET history_copy == Slice(st.history, st.stepNumber + 1)
        sq == Current(st)
    IN  IF Rejects(st, i)
        THEN st
        ELSE [history    |-> Append(history_copy,
                                    [sq EXCEPT ![i] = IF st.xIsNext THEN "X" ELSE "O"]),
              xIsNext    |-> ~st.xIsNext,
              stepNumber |-> Len(st.history)]

\* Variant of handleClick: the mark is always 'X'.
handleClickAlwaysX(st, i) ==
    LET history_copy == Slice(st.history, st.stepNumber + 1)
        sq == Current(st)
    IN  IF Rejects(st, i)
        THEN st
        ELSE [history    |-> Append(history_copy, [sq EXCEPT ![i] = "X"]),
              xIsNext    |-> ~st.xIsNext,
              stepNumber |-> Len(history_copy)]

\* Variant of handleClick: history.concat(...) instead of history_copy.concat(...).
handleClickNoSlice(st, i) ==
    LET history_copy == Slice(st.history, st.stepNumber + 1)
        sq == Current(st)
    IN  IF Rejects(st, i)
        THEN st
        ELSE [history    |-> Append(st.history,
                                    [sq EXCEPT ![i] = IF st.xIsNext THEN "X" ELSE "O"]),
              xIsNext    |-> ~st.xIsNext,
              stepNumber |-> Len(history_copy)]

\* Variant of handleClick: setStepNumber(...) is left out.
handleClickNoStep(st, i) ==
    LET history_copy == Slice(st.history, st.stepNumber + 1)
        sq == Current(st)
    IN  IF Rejects(st, i)
        THEN st
        ELSE [history    |-> Append(history_copy,
                                    [sq EXCEPT ![i] = IF st.xIsNext THEN "X" ELSE "O"]),
              xIsNext    |-> ~st.xIsNext,
              stepNumber |-> st.stepNumber]

\* Variant of handleClick: current.squares is used without slice(), so the
\* assignment to squares[i] also changes the entry history[stepNumber].
handleClickNoCopy(st, i) ==
    LET history_copy == Slice(st.history, st.stepNumber + 1)
        sq == Current(st)
        new == [sq EXCEPT ![i] = IF st.xIsNext THEN "X" ELSE "O"]
    IN  IF Rejects(st, i)
        THEN st
        ELSE [history    |-> Append([history_copy EXCEPT ![Len(history_copy)] = new], new),
              xIsNext    |-> ~st.xIsNext,
              stepNumber |-> Len(history_copy)]

\* Variant of handleClick: the new entry is put in front of history_copy
\* ([{squares}].concat(history_copy)).
handleClickPrepend(st, i) ==
    LET history_copy == Slice(st.history, st.stepNumber + 1)
        sq == Current(st)
    IN  IF Rejects(st, i)
        THEN st
        ELSE [history    |-> << [sq EXCEPT ![i] = IF st.xIsNext THEN "X" ELSE "O"] >>
                                 \o history_copy,
              xIsNext    |-> ~st.xIsNext,
              stepNumber |-> Len(history_copy)]

\* Variant of handleClick: the marks are swapped (xIsNext ? 'O' : 'X').
handleClickSwapMarks(st, i) ==
    LET history_copy == Slice(st.history, st.stepNumber + 1)
        sq == Current(st)
    IN  IF Rejects(st, i)
        THEN st
        ELSE [history    |-> Append(history_copy,
                                    [sq EXCEPT ![i] = IF st.xIsNext THEN "O" ELSE "X"]),
              xIsNext    |-> ~st.xIsNext,
              stepNumber |-> Len(history_copy)]

\* handleClick(i) run on the render st: the hook values of the next render.
handleClick(st, i) ==
    LET history_copy == Slice(st.history, st.stepNumber + 1)
        sq == Current(st)
    IN  IF Rejects(st, i)
        THEN st
        ELSE [history    |-> Append(history_copy,
                                    [sq EXCEPT ![i] = IF st.xIsNext THEN "X" ELSE "O"]),
              xIsNext    |-> ~st.xIsNext,
              stepNumber |-> Len(history_copy)]

\* Variant of jumpTo: setXIsNext(...) is left out.
jumpToNoTurn(st, step) ==
    [history    |-> st.history,
     xIsNext    |-> st.xIsNext,
     stepNumber |-> step]

\* Variant of jumpTo: the parity test is inverted ((step % 2) === 1).
jumpToOdd(st, step) ==
    [history    |-> st.history,
     xIsNext    |-> ((step % 2) = 1),
     stepNumber |-> step]

\* Variant of jumpTo: the jump also drops the later entries
\* (setHistory(history.slice(0, step + 1))).
jumpToTruncate(st, step) ==
    [history    |-> Slice(st.history, step + 1),
     xIsNext    |-> ((step % 2) = 0),
     stepNumber |-> step]

\* Variant of jumpTo: the turn flag is toggled instead of set (setXIsNext(!xIsNext)).
jumpToToggle(st, step) ==
    [history    |-> st.history,
     xIsNext    |-> ~st.xIsNext,
     stepNumber |-> step]

\* jumpTo(step) run on the render st: the hook values of the next render.
jumpTo(st, step) ==
    [history    |-> st.history,
     xIsNext    |-> ((step % 2) = 0),
     stepNumber |-> step]

\* history.map((step, move) => ... jumpTo(move)): the indices the move list offers.
moves == 0 .. (Len(history) - 1)

\* Variant of Status: the winner is computed on history[history.length - 1].
StatusOfLast(st) ==
    LET w == calculateWinner(Entry(st.history, Len(st.history) - 1))
    IN  IF Truthy(w) THEN <<"Winner: ", w>>
        ELSE <<"Next player: ", IF st.xIsNext THEN "X" ELSE "O">>

\* Variant of Status: the next player is printed inverted (xIsNext ? 'O' : 'X').
StatusInverted(st) ==
    LET w == calculateWinner(Current(st))
    IN  IF Truthy(w) THEN <<"Winner: ", w>>
        ELSE <<"Next player: ", IF st.xIsNext THEN "O" ELSE "X">>

\* The status line of a render.
Status(st) ==
    LET w == calculateWinner(Current(st))
    IN  IF Truthy(w) THEN <<"Winner: ", w>>
        ELSE <<"Next player: ", IF st.xIsNext THEN "X" ELSE "O">>
status == Status(state)

\* Variant of Init: useState(false) for xIsNext, so O moves first.
InitOFirst ==
    /\ history = <<EmptySquares>>
    /\ xIsNext = FALSE
    /\ stepNumber = 0
    /\ accepted = 0
    /\ jumped = FALSE
    /\ squares = EmptySquares
    /\ winner = "pending"
    /\ clicks = <<>>

Init ==
    /\ history = <<EmptySquares>>
    /\ xIsNext = TRUE
    /\ stepNumber = 0
    /\ accepted = 0
    /\ jumped = FALSE
    /\ squares = EmptySquares
    /\ winner = "pending"
    /\ clicks = <<>>

\* A click on square i.  On an undecided board, clicks on empty squares are
\* explored for the first MaxBranch empty squares only; every click on an
\* occupied square or on a decided board is explored.
Click(i) ==
    /\ \/ Cardinality({c \in 0 .. (i - 1) : current[c] = null}) < MaxBranch
       \/ Truthy(current[i])
       \/ Truthy(calculateWinner(current))
    /\ \E st \in {handleClick(state, i)} :
           /\ history' = st.history
           /\ xIsNext' = st.xIsNext
           /\ stepNumber' = st.stepNumber
           /\ accepted' = IF jumped \/ Rejects(state, i) THEN accepted ELSE accepted + 1
    /\ UNCHANGED <<jumped, squares, winner, clicks>>

\* A click on the move-list button of move `step`.
Jump(step) ==
    /\ \E st \in {jumpTo(state, step)} :
           /\ history' = st.history
           /\ xIsNext' = st.xIsNext
           /\ stepNumber' = st.stepNumber
    /\ jumped' = TRUE
    /\ accepted' = 0
    /\ UNCHANGED <<squares, winner, clicks>>

Next ==
    \/ \E i \in Cells : Click(i)
    \/ \E step \in moves : Jump(step)

Spec == Init /\ [][Next]_vars

\* A scripted game: the next click of the script, on any square of
\* 0 .. MaxScriptCell, accepted or not; no time travel.
ScriptClick(i) ==
    /\ Len(clicks) < ScriptLen
    /\ \E st \in {handleClick(state, i)} :
           /\ history' = st.history
           /\ xIsNext' = st.xIsNext
           /\ stepNumber' = st.stepNumber
           /\ accepted' = IF jumped \/ Rejects(state, i) THEN accepted ELSE accepted + 1
    /\ clicks' = Append(clicks, i)
    /\ UNCHANGED <<jumped, squares, winner>>

NextScript == \E i \in 0 .. MaxScriptCell : ScriptClick(i)

SpecScript == Init /\ [][NextScript]_vars

\* The harness of the pure helper: any array of 9 values from {null, 'X', 'O'}.
InitCW ==
    /\ history = <<EmptySquares>>
    /\ xIsNext = TRUE
    /\ stepNumber = 0
    /\ accepted = 0
    /\ jumped = FALSE
    /\ squares \in Boards
    /\ winner = "pending"
    /\ clicks = <<>>

Calc ==
    /\ winner = "pending"
    /\ winner' = calculateWinner(squares)
    /\ UNCHANGED <<history, xIsNext, stepNumber, accepted, jumped, squares, clicks>>

NextCW == Calc

SpecCW == InitCW /\ [][NextCW]_vars

TypeOK ==
    /\ history \in Seq(Boards)
    /\ xIsNext \in BOOLEAN
    /\ stepNumber \in Nat
    /\ accepted \in Nat
    /\ jumped \in BOOLEAN
    /\ squares \in Boards
    /\ winner \in Values \cup {"pending"}
    /\ clicks \in Seq(Cells)

(***************************************************************************)
(* Vocabulary of the properties, written without the handlers.             *)
(***************************************************************************)

\* The 8 fixed lines, as a set of index triples.
FixedLines ==
    { <<0, 1, 2>>, <<3, 4, 5>>, <<6, 7, 8>>,
      <<0, 3, 6>>, <<1, 4, 7>>, <<2, 5, 8>>,
      <<0, 4, 8>>, <<2, 4, 6>> }

\* The board whose cell c holds the (c+1)-th value of a 9-tuple.
BoardOf(t) == [c \in Cells |-> t[c + 1]]

\* The fixed order of the lines: rows top-to-bottom, columns left-to-right,
\* diagonal, anti-diagonal.
FixedOrder ==
    << <<0, 1, 2>>, <<3, 4, 5>>, <<6, 7, 8>>,
       <<0, 3, 6>>, <<1, 4, 7>>, <<2, 5, 8>>,
       <<0, 4, 8>>, <<2, 4, 6>> >>

\* All three cells of line l hold mark m.
Uniform(sq, l, m) == sq[l[1]] = m /\ sq[l[2]] = m /\ sq[l[3]] = m

\* Number of cells of sq that hold v.
Count(sq, v) == Cardinality({c \in Cells : sq[c] = v})

\* The marks that own a uniform line of sq: the values calculateWinner can
\* return on sq under some enumeration order of the 8 lines.
WinMarks(sq) == {m \in Marks : \E l \in FixedLines : Uniform(sq, l, m)}

\* A click on cell i of the displayed board of st is a legal move:
\* the board is undecided and the cell is empty.
Legal(st, i) ==
    /\ calculateWinner(Current(st)) = null
    /\ Current(st)[i] = null

\* C1: for every 9-cell board over {null, X, O}, reachable or not,
\* calculateWinner returns a mark m only if one of the 8 fixed lines has all
\* three cells equal to m, and returns null exactly when no fixed line is
\* uniform and non-empty.
C1_WinnerIffUniformLine ==
    winner # "pending" =>
        /\ winner \in Values
        /\ winner \in Marks => \E l \in FixedLines : Uniform(squares, l, winner)
        /\ winner = null <=> ~ \E l \in FixedLines, m \in Marks : Uniform(squares, l, m)

\* A returned mark on a board no game reaches: both marks own a uniform line.
C1_Witness ==
    /\ winner = "O"
    /\ \E l \in FixedLines : Uniform(squares, l, "X")

\* C2: a click on a cell that is non-empty in the displayed board changes
\* neither history nor stepNumber nor xIsNext, however often it is repeated.
C2_OccupiedClickIsNoOp ==
    \A i \in Cells :
        current[i] # null =>
            /\ handleClick(state, i) = state
            /\ handleClick(handleClick(state, i), i) = state

\* An undecided displayed board with an occupied cell, shown after time travel.
C2_Witness ==
    /\ jumped
    /\ calculateWinner(current) = null
    /\ \E i \in Cells : current[i] # null
    /\ \E i \in Cells : current[i] = null

\* C3: when calculateWinner of the displayed board returns a mark, a click on
\* any cell 0..8, empty ones included, changes neither history nor stepNumber
\* nor xIsNext.
C3_DecidedClickIsNoOp ==
    calculateWinner(current) \in Marks =>
        \A i \in Cells : handleClick(state, i) = state

\* A decided displayed board that still has an empty cell.
C3_Witness ==
    /\ calculateWinner(current) \in Marks
    /\ \E i \in Cells : current[i] = null

\* C4: from the initial state, after clicks of which exactly k were accepted
\* and no jumpTo, the current player is X if k is even and O if k is odd.
C4_TurnAlternation ==
    ~jumped => (xIsNext <=> accepted % 2 = 0)

\* Three accepted moves without time travel: O is to move.
C4_Witness ==
    /\ ~jumped
    /\ accepted = 3
    /\ ~xIsNext

\* C5: after any interleaving of clicks and jumps, xIsNext is true iff
\* stepNumber is even, so the next accepted move places X iff stepNumber is even.
C5_TurnFlagIsParity ==
    /\ xIsNext <=> stepNumber % 2 = 0
    /\ \A i \in Cells :
           Legal(state, i) =>
               LET n == handleClick(state, i)
               IN  Entry(n.history, n.stepNumber)[i] = "X" <=> stepNumber % 2 = 0

\* After time travel to an odd step before the end of the history.
C5_Witness ==
    /\ jumped
    /\ stepNumber % 2 = 1
    /\ stepNumber < Len(history) - 1
    /\ ~xIsNext

\* C6: jumpTo being called with indices of the move list only,
\* 0 <= stepNumber < length(history), so history[stepNumber] is defined.
C6_StepNumberInRange ==
    /\ 0 <= stepNumber
    /\ stepNumber < Len(history)
    /\ stepNumber + 1 \in DOMAIN history

\* A pointer strictly inside a history, reached by time travel.
C6_Witness ==
    /\ jumped
    /\ 0 < stepNumber
    /\ stepNumber < Len(history) - 1

\* C7: history[0] is the all-empty board, and history[k] has exactly k
\* non-empty cells, ceil(k/2) of them X and floor(k/2) of them O.
C7_EntryHoldsKMarks ==
    /\ \A c \in Cells : Entry(history, 0)[c] = null
    /\ \A k \in 0 .. (Len(history) - 1) :
           /\ Count(Entry(history, k), null) = 9 - k
           /\ Count(Entry(history, k), "X") = (k + 1) \div 2
           /\ Count(Entry(history, k), "O") = k \div 2

\* A history of at least four moves seen from an earlier step after time travel.
C7_Witness ==
    /\ jumped
    /\ Len(history) >= 5
    /\ stepNumber = 1

\* C8: an accepted click on cell i at pointer p gives a history of length
\* p+2 whose last entry is history[p] with only cell i changed, from empty to
\* the current player's mark, and sets stepNumber to p+1, the last index.
C8_AcceptedMoveAppendsOne ==
    \A i \in Cells :
        Legal(state, i) =>
            LET p == stepNumber
                n == handleClick(state, i)
                last == Entry(n.history, Len(n.history) - 1)
            IN  /\ Len(n.history) = p + 2
                /\ current[i] = null
                /\ last[i] = (IF xIsNext THEN "X" ELSE "O")
                /\ \A c \in Cells \ {i} : last[c] = Entry(history, p)[c]
                /\ n.stepNumber = p + 1
                /\ n.stepNumber = Len(n.history) - 1

\* The pointer is on a last entry that differs from its predecessor in one cell,
\* and a further legal move exists.
C8_Witness ==
    /\ stepNumber >= 1
    /\ stepNumber = Len(history) - 1
    /\ Cardinality({c \in Cells :
           Entry(history, stepNumber)[c] # Entry(history, stepNumber - 1)[c]}) = 1
    /\ \E i \in Cells : Legal(state, i)

\* C9: for a history of length h and s in 0..h-1, jumpTo(s) followed by an
\* accepted click on i gives a history of length s+2: entries 0..s are kept,
\* entries s+1..h-1 are discarded and the new move is entry s+1.
C9_TimeTravelTruncates ==
    \A s \in 0 .. (Len(history) - 1) :
        \A a \in {jumpTo(state, s)} :
            calculateWinner(Current(a)) = null =>
                \A i \in {c \in Cells : Current(a)[c] = null} :
                    \A b \in {handleClick(a, i)} :
                        /\ Len(b.history) = s + 2
                        /\ \A k \in 0 .. s : Entry(b.history, k) = Entry(history, k)
                        /\ Entry(b.history, s + 1)[i] # null
                        /\ \A c \in Cells \ {i} :
                               Entry(b.history, s + 1)[c] = Entry(history, s)[c]

\* A jump back by at least two entries followed by a legal move shortens the history.
C9_Witness ==
    \E s \in 0 .. (Len(history) - 1) : \E i \in Cells :
        /\ s + 2 < Len(history)
        /\ Legal(jumpTo(state, s), i)
        /\ Len(handleClick(jumpTo(state, s), i).history) < Len(history)

\* C10: without jumpTo, after clicks of which exactly n were accepted,
\* length(history) = n+1 and stepNumber = n.
C10_HistoryLengthUnderPlay ==
    ~jumped =>
        /\ Len(history) = accepted + 1
        /\ stepNumber = accepted

\* Four accepted moves without time travel.
C10_Witness ==
    /\ ~jumped
    /\ accepted = 4
    /\ Len(history) = 5

\* C11: history entries are never mutated: an accepted click at pointer p
\* leaves the entries history[0..p] as they were, cell by cell; the snapshot
\* the new board was copied from is not changed by setting the new cell.
C11_EntriesNeverMutated ==
    \A i \in Cells :
        Legal(state, i) =>
            \A n \in {handleClick(state, i)} :
                /\ Len(n.history) > stepNumber + 1
                /\ \A k \in 0 .. stepNumber : \A c \in Cells :
                       Entry(n.history, k)[c] = Entry(history, k)[c]
                /\ Entry(n.history, stepNumber)[i] = null

\* Two moves in, with a legal click that changes the history.
C11_Witness ==
    /\ stepNumber >= 2
    /\ \E i \in Cells : Legal(state, i) /\ handleClick(state, i).history # history

\* C12: from every reachable state jumpTo(0) displays the all-empty board
\* with X to move and the status 'Next player: X'.
C12_JumpToStart ==
    \A a \in {jumpTo(state, 0)} :
        /\ \A c \in Cells : Current(a)[c] = null
        /\ a.xIsNext
        /\ Status(a) = <<"Next player: ", "X">>

\* The start of a game of at least three moves, shown again by time travel.
C12_Witness ==
    /\ jumped
    /\ stepNumber = 0
    /\ Len(history) >= 4
    /\ status = <<"Next player: ", "X">>

\* C13: a won state blocks clicks but not time travel: when the displayed
\* board has a winner every click is a no-op, while jumpTo(s) to any earlier
\* index s displays a board without a winner, on which a click on an empty
\* cell is accepted again.
C13_WonBlocksClicksNotJumps ==
    calculateWinner(Entry(history, stepNumber)) \in Marks =>
        /\ \A i \in Cells : handleClick(state, i) = state
        /\ \A s \in 0 .. (stepNumber - 1) :
               \A a \in {jumpTo(state, s)} :
                   /\ a.stepNumber = s
                   /\ calculateWinner(Entry(a.history, s)) = null
                   /\ \A i \in {c \in Cells : Entry(a.history, s)[c] = null} :
                          \A b \in {handleClick(a, i)} :
                              /\ b # a
                              /\ b.stepNumber = s + 1
                              /\ Entry(b.history, s + 1)[i] # null

\* A win of O on display after time travel.
C13_Witness ==
    /\ jumped
    /\ calculateWinner(Entry(history, stepNumber)) = "O"
    /\ stepNumber >= 6

C15_StatusOfDisplayedBoard ==
    LET w == calculateWinner(Entry(history, stepNumber))
    IN  /\ \A m \in Marks : status = <<"Winner: ", m>> <=> w = m
        /\ w = null =>
               status = <<"Next player: ", IF stepNumber % 2 = 0 THEN "X" ELSE "O">>

\* An undecided board on display, O to move, while the history ends in a win.
C15_Witness ==
    /\ jumped
    /\ status = <<"Next player: ", "O">>
    /\ calculateWinner(Entry(history, Len(history) - 1)) \in Marks

\* C16 as stated: the clicks 0,4,1,3,2 from the initial state are all
\* accepted and give the board [X,O,X,O,X,_,_,_,_] with status 'Winner: X'.
C16_ScriptAlternatingRow ==
    clicks = <<0, 4, 1, 3, 2>> =>
        /\ accepted = 5
        /\ current = BoardOf(<<"X", "O", "X", "O", "X", null, null, null, null>>)
        /\ status = <<"Winner: ", "X">>

\* C16, amended: the clicks 0,4,1,3,2 from the initial state are all accepted
\* and give the board [X,X,X,O,O,_,_,_,_] with status 'Winner: X'.
C16_ScriptGivesTopRow ==
    clicks = <<0, 4, 1, 3, 2>> =>
        /\ accepted = 5
        /\ stepNumber = 5
        /\ current = BoardOf(<<"X", "X", "X", "O", "O", null, null, null, null>>)
        /\ status = <<"Winner: ", "X">>

\* The script 0,4,1,3,2 has been played to its end.
C16_Witness ==
    /\ clicks = <<0, 4, 1, 3, 2>>
    /\ Len(history) = 6

\* C17: the clicks 0,3,1,4,2 from the initial state are all accepted, leave
\* the top row X,X,X (board [X,X,X,O,O,_,_,_,_]), give status 'Winner: X',
\* a history of length 6 and stepNumber 5, and every further click is rejected.
C17_ScriptTopRowWins ==
    (Len(clicks) >= 5 /\ SubSeq(clicks, 1, 5) = <<0, 3, 1, 4, 2>>) =>
        /\ accepted = 5
        /\ current = BoardOf(<<"X", "X", "X", "O", "O", null, null, null, null>>)
        /\ status = <<"Winner: ", "X">>
        /\ Len(history) = 6
        /\ stepNumber = 5
        /\ \A i \in Cells : handleClick(state, i) = state

\* The script 0,3,1,4,2 has been played to its end.
C17_Witness ==
    /\ clicks = <<0, 3, 1, 4, 2>>
    /\ calculateWinner(current) = "X"

\* C18: jumpTo(step) changes only the pointer and the turn flag: stepNumber
\* becomes step, xIsNext becomes (step is even), and history keeps its length
\* and its entries, so jumping alone loses no later entry.
C18_JumpKeepsHistory ==
    \A s \in 0 .. (Len(history) - 1) :
        \A a \in {jumpTo(state, s)} :
            /\ a.stepNumber = s
            /\ a.xIsNext = (s % 2 = 0)
            /\ Len(a.history) = Len(history)
            /\ \A k \in 0 .. (Len(history) - 1) : Entry(a.history, k) = Entry(history, k)

\* After a jump the history still holds at least three entries beyond the pointer.
C18_Witness ==
    /\ jumped
    /\ Len(history) - 1 >= stepNumber + 3

\* C19: no entry of history in any reachable state holds both a uniform X
\* line and a uniform O line, so on these boards calculateWinner returns the
\* same result whatever the enumeration order of the 8 lines.
C19_OneWinnerOnReachableBoards ==
    \A k \in 0 .. (Len(history) - 1) :
        \A sq \in {Entry(history, k)} :
            \A w \in {calculateWinner(sq)} : \A ms \in {WinMarks(sq)} :
                /\ ~ ("X" \in ms /\ "O" \in ms)
                /\ \A m \in ms : w = m
                /\ ms = {} => w = null
                /\ WinnerDownFrom(sq, Len(lines)) = w

\* The displayed board holds two different uniform lines, both of X.
C19_Witness ==
    \E l1, l2 \in FixedLines :
        /\ l1 # l2
        /\ Uniform(current, l1, "X")
        /\ Uniform(current, l2, "X")

\* C20: for every 9-cell board, boards with a uniform line of each mark
\* included, calculateWinner returns the mark of the first uniform non-empty
\* line in the order rows top-to-bottom, columns left-to-right, diagonal
\* (0,4,8), anti-diagonal (2,4,6), and null when there is none.
C20_FirstLineInFixedOrder ==
    winner # "pending" =>
        LET hits == {n \in 1 .. 8 : \E m \in Marks : Uniform(squares, FixedOrder[n], m)}
        IN  IF hits = {}
            THEN winner = null
            ELSE LET first == CHOOSE n \in hits : \A o \in hits : n <= o
                 IN  /\ winner \in Marks
                     /\ winner = squares[FixedOrder[first][1]]

\* X owns the top row, O the bottom row, and the top row decides.
C20_Witness ==
    /\ winner = "X"
    /\ Uniform(squares, <<0, 1, 2>>, "X")
    /\ Uniform(squares, <<6, 7, 8>>, "O")

\* C21: a drawn board is not a distinct state: when the displayed board is
\* full with no winner, stepNumber is 9, the status is 'Next player: O', every
\* click is rejected (each cell is occupied), and the only operation that
\* changes the state is jumpTo, to any other step.
C21_DrawIsNotAState ==
    (Count(current, null) = 0 /\ calculateWinner(current) = null) =>
        /\ stepNumber = 9
        /\ Len(history) = 10
        /\ status = <<"Next player: ", "O">>
        /\ \A i \in Cells : current[i] # null /\ handleClick(state, i) = state
        /\ \A s \in 0 .. 8 : jumpTo(state, s) # state
        /\ jumpTo(state, 9) = state

\* A full board without a winner is on display.
C21_Witness ==
    /\ stepNumber = 9
    /\ \A c \in Cells : current[c] # null
    /\ calculateWinner(current) = null

\* C22: only the last entry of history can be a decided board: for every
\* index k < length(history)-1, calculateWinner(history[k]) returns null,
\* also after time travel and truncation.
C22_OnlyLastEntryDecided ==
    \A k \in 0 .. (Len(history) - 2) :
        calculateWinner(Entry(history, k)) = null

\* A history that ends in a decided board, seen from an earlier step.
C22_Witness ==
    /\ jumped
    /\ stepNumber < Len(history) - 1
    /\ calculateWinner(Entry(history, Len(history) - 1)) \in Marks

\* C23: the winner is the player who made the last move of the snapshot: if
\* calculateWinner(history[k]) returns the mark m then k >= 5, m is X when k
\* is odd and O when k is even, and the cell set by the move that created
\* history[k] lies on a uniform line of m.
C23_WinnerMovedLast ==
    \A k \in 0 .. (Len(history) - 1) :
        \A m \in {calculateWinner(Entry(history, k))} :
            m \in Marks =>
                /\ k >= 5
                /\ m = (IF k % 2 = 1 THEN "X" ELSE "O")
                /\ \E c \in Cells :
                       /\ Entry(history, k - 1)[c] = null
                       /\ Entry(history, k)[c] = m
                       /\ \E l \in FixedLines :
                              /\ c \in {l[1], l[2], l[3]}
                              /\ Uniform(Entry(history, k), l, m)

\* A win of O at an even step is the last entry of the history.
C23_Witness ==
    /\ Len(history) - 1 \in {6, 8}
    /\ calculateWinner(Entry(history, Len(history) - 1)) = "O"

\* C24: time travel without a move is lossless and the last jump wins: from
\* every reachable state with pointer p, for all s and t of the move list,
\* jumpTo(s) then jumpTo(t) gives the state of jumpTo(t) alone, jumpTo(s) then
\* jumpTo(p) gives back the original history, stepNumber and xIsNext, and
\* jumpTo(s) twice equals jumpTo(s) once.
C24_JumpsComposeToLast ==
    \A s \in 0 .. (Len(history) - 1) :
        \A a \in {jumpTo(state, s)} :
            /\ jumpTo(a, stepNumber) = state
            /\ jumpTo(a, s) = a
            /\ \A t \in 0 .. (Len(history) - 1) : jumpTo(a, t) = jumpTo(state, t)

\* After time travel, at an odd step of a history of at least four entries.
C24_Witness ==
    /\ jumped
    /\ Len(history) >= 4
    /\ stepNumber % 2 = 1
    /\ jumpTo(state, 0) # state
====
